---- MODULE Spec2Model ----
(***************************************************************************)
(* Model of the trello-clone board store.                                  *)
(*                                                                         *)
(*   useBoard         the board operations (immutable updaters handed to   *)
(*                    setBoard)                                            *)
(*   useLocalStorage  the persistence hook: hydration read, write effect,  *)
(*                    cross-tab "storage" listener                         *)
(*   Board            the drag handlers that turn a gesture into           *)
(*                    moveCard / reorder calls                             *)
(*                                                                         *)
(* Specifications: Spec (one tab, every operation with every argument),   *)
(* SpecTabs (two tabs on one key), SpecHook (one store and the whole       *)
(* interface of the hook, in any browser), SpecSeq (a longer session from  *)
(* the default board, in any browser), SpecTwice (operations repeated),    *)
(* SpecOrigin (two tabs and the other documents of the origin), SpecFair   *)
(* (two loaded tabs whose renders and storage events always run),          *)
(* SpecDrag (the gestures of one tab).                                     *)
(*                                                                         *)
(* A tab is one mounted instance of the hook.  JavaScript objects are      *)
(* modelled with their identity where React compares by identity           *)
(* (Object.is on a state update, the dependency list of an effect).        *)
(***************************************************************************)
EXTENDS Integers, Sequences, FiniteSets, TLC

VARIABLES
    storedValue,    \* [tab -> object] useState<T>(initialValue)
    isHydrated,     \* [tab -> BOOLEAN] useState(false)
    isFirstRender,  \* [tab -> BOOLEAN] useRef(true)
    listening,      \* [tab -> BOOLEAN] the "storage" listener is registered
    pending,        \* [tab -> what scheduled the render that has not run yet, or "none"]
    rendered,       \* [tab -> board] the board value of the last render (what closures see)
    crashed,        \* [tab -> BOOLEAN] an updater threw during render
    inbox,          \* [tab -> Seq(event)] storage events not yet dispatched
    storage,        \* the item stored under STORAGE_KEYS.BOARD
    fault,          \* which localStorage calls throw in this browser
    reads,          \* [tab -> number of getItem calls the tab has made]
    now,            \* the clock read by getCurrentTimestamp
    uuid,           \* number of ids drawn from uuidv4
    issued,         \* the ids generateId has returned, in order
    calls,          \* the board operations called, in order, with their arguments
    ops,            \* number of user operations performed
    last            \* the last operation: its name, arguments and the state it was applied to

vars == <<storedValue, isHydrated, isFirstRender, listening, pending, rendered,
          crashed, inbox, storage, fault, reads, now, uuid, issued, calls, ops, last>>

----------------------------------------------------------------------------
(* Bounds *)

MaxOps == 1         \* user operations per behaviour
MaxRepeats == 2     \* deliveries of one provisional move before the next render
MaxSeqOps == 3      \* user operations per behaviour of a session at the ends of the board
MaxCalls == 2       \* user operations per behaviour of a user who repeats operations

Tabs == {1, 2}
Titles == {"X", "Y"}
Texts == {"hello"}

----------------------------------------------------------------------------
(* Values *)

Max(a, b) == IF a > b THEN a ELSE b
Min(a, b) == IF a < b THEN a ELSE b

\* The value of the expression `undefined`, and JSON's null.
Undefined == [undefined |-> TRUE]
Null == [null |-> TRUE]

\* x.id evaluates without a TypeError
IsObject(x) == "id" \in DOMAIN x

\* Mutant: the id is made of the prefix and something that is not unique
generateId_Same(prefix, n) == <<prefix, "uuid", 1>>

\* generateId(prefix): `${prefix}-${uuidv4()}`; the n-th uuid drawn
generateId(prefix, n) == <<prefix, "uuid", n>>

\* the literal ids of DEFAULT_BOARD, "list-1", "card-2", ...
LiteralId(prefix, n) == <<prefix, "literal", n>>

\* an id that no entity carries ("missing-id")
MissingId == <<"none", "missing", 0>>

NewCard(id, title, t) == [id |-> id, title |-> title, comments |-> <<>>, createdAt |-> t]
NewList(id, title, cards) == [id |-> id, title |-> title, cards |-> cards]
NewComment(id, text, t) == [id |-> id, text |-> text, createdAt |-> t]

\* DEFAULT_BOARD is evaluated once, when the module is loaded (time 0).
DEFAULT_BOARD ==
    [id |-> LiteralId("board", 1),
     title |-> "Demo Board",
     lists |-> << NewList(LiteralId("list", 1), "Todo",
                     << NewCard(LiteralId("card", 1), "Create interview Kanban", 0),
                        NewCard(LiteralId("card", 2), "Review Drag & Drop", 0) >>),
                  NewList(LiteralId("list", 2), "In Progress",
                     << NewCard(LiteralId("card", 3), "Set up Next.js project", 0) >>),
                  NewList(LiteralId("list", 3), "Done", <<>>) >>,
     createdAt |-> 0,
     updatedAt |-> 0]

\* Object identity.  "default" is the DEFAULT_BOARD object itself, "state" the
\* object a tab's state currently holds, "new" an object just allocated.
DefaultObject == [ref |-> "default", val |-> DEFAULT_BOARD]
New(v) == [ref |-> "new", val |-> v]
TypeError == [error |-> "TypeError"]
SyntaxError == [error |-> "SyntaxError"]
IsError(x) == "error" \in DOMAIN x

----------------------------------------------------------------------------
(* Array.prototype.splice *)

\* the actual start index of splice(start, ...) on an array of length len (0-based)
SpliceStart(len, start) ==
    IF start < 0 THEN Max(len + start, 0) ELSE Min(start, len)

\* Mutant: the element is read but not removed (slice for splice)
SpliceRemoveRest_Keep(a, start) == a

\* const [removed] = a.splice(start, 1): the array afterwards
SpliceRemoveRest(a, start) ==
    LET k == SpliceStart(Len(a), start)
    IN  IF k < Len(a) THEN SubSeq(a, 1, k) \o SubSeq(a, k + 2, Len(a)) ELSE a

\* const [removed] = a.splice(start, 1): the element removed, undefined if none
SpliceRemoved(a, start) ==
    LET k == SpliceStart(Len(a), start)
    IN  IF k < Len(a) THEN a[k + 1] ELSE Undefined

\* Mutant: the item is inserted after the element at start, not before it
SpliceInsert_After(a, start, item) ==
    LET k == Min(SpliceStart(Len(a), start) + 1, Len(a))
    IN  SubSeq(a, 1, k) \o <<item>> \o SubSeq(a, k + 1, Len(a))

\* a.splice(start, 0, item): the array afterwards
SpliceInsert(a, start, item) ==
    LET k == SpliceStart(Len(a), start)
    IN  SubSeq(a, 1, k) \o <<item>> \o SubSeq(a, k + 1, Len(a))

\* Mutant: the two positions are swapped instead of one element relocated
reorderArray_Swap(list, startIndex, endIndex) ==
    IF startIndex \in 0..(Len(list) - 1) /\ endIndex \in 0..(Len(list) - 1)
    THEN [k \in 1..Len(list) |->
             IF k = startIndex + 1 THEN list[endIndex + 1]
             ELSE IF k = endIndex + 1 THEN list[startIndex + 1]
             ELSE list[k]]
    ELSE list

\* result = Array.from(list); [removed] = result.splice(startIndex, 1);
\* result.splice(endIndex, 0, removed)
reorderArray(list, startIndex, endIndex) ==
    SpliceInsert(SpliceRemoveRest(list, startIndex), endIndex,
                 SpliceRemoved(list, startIndex))

----------------------------------------------------------------------------
(* Array helpers as the updaters use them *)

\* every element can be asked for its .id
AllObjects(a) == \A i \in 1..Len(a) : IsObject(a[i])

\* a.find(x => x.id === id) throws: an undefined element is visited before a match
FindThrows(a, id) ==
    \E i \in 1..Len(a) :
        /\ ~IsObject(a[i])
        /\ \A j \in 1..(i - 1) : ~(IsObject(a[j]) /\ a[j].id = id)

\* a.findIndex(x => x.id === id), 0-based, -1 when absent
FindIndex(a, id) ==
    IF \E i \in 1..Len(a) : IsObject(a[i]) /\ a[i].id = id
    THEN (CHOOSE i \in 1..Len(a) :
             /\ IsObject(a[i]) /\ a[i].id = id
             /\ \A j \in 1..(i - 1) : ~(IsObject(a[j]) /\ a[j].id = id)) - 1
    ELSE -1

\* a.find(x => x.id === id)
Find(a, id) == IF FindIndex(a, id) = -1 THEN Undefined ELSE a[FindIndex(a, id) + 1]

\* Mutant: the filter keeps the first element whatever its id
FilterOut_KeepFirst(a, id) ==
    SelectSeq(a, LAMBDA x : x.id # id \/ x = a[1])

\* a.filter(x => x.id !== id)
FilterOut(a, id) == SelectSeq(a, LAMBDA x : x.id # id)

----------------------------------------------------------------------------
(* useBoard: the updater each operation hands to setBoard.  prev is the     *)
(* state object; the result is prev itself, a new object, or a TypeError    *)
(* raised while the updater runs.  t is the value of getCurrentTimestamp(). *)

updateBoardTitle(prev, title, t) ==
    New([prev.val EXCEPT !.title = title, !.updatedAt = t])

\* Mutant: a list is added only if no list has the title yet
addList_Once(prev, id, title, t) ==
    IF \E i \in 1..Len(prev.val.lists) :
          IsObject(prev.val.lists[i]) /\ prev.val.lists[i].title = title
    THEN prev
    ELSE New([prev.val EXCEPT !.lists = Append(@, NewList(id, title, <<>>)),
                              !.updatedAt = t])

addList(prev, id, title, t) ==
    New([prev.val EXCEPT !.lists = Append(@, NewList(id, title, <<>>)),
                         !.updatedAt = t])

updateListTitle(prev, listId, title, t) ==
    LET lists == prev.val.lists
    IN  IF ~AllObjects(lists) THEN TypeError
        ELSE New([prev.val EXCEPT
                    !.lists = [i \in 1..Len(lists) |->
                                 IF lists[i].id = listId
                                 THEN [lists[i] EXCEPT !.title = title]
                                 ELSE lists[i]],
                    !.updatedAt = t])

deleteList(prev, listId, t) ==
    LET lists == prev.val.lists
    IN  IF ~AllObjects(lists) THEN TypeError
        ELSE New([prev.val EXCEPT !.lists = FilterOut(lists, listId),
                                  !.updatedAt = t])

deleteAllCards(prev, listId, t) ==
    LET lists == prev.val.lists
    IN  IF ~AllObjects(lists) THEN TypeError
        ELSE New([prev.val EXCEPT
                    !.lists = [i \in 1..Len(lists) |->
                                 IF lists[i].id = listId
                                 THEN [lists[i] EXCEPT !.cards = <<>>]
                                 ELSE lists[i]],
                    !.updatedAt = t])

reorderLists(prev, startIndex, endIndex, t) ==
    New([prev.val EXCEPT !.lists = reorderArray(@, startIndex, endIndex),
                         !.updatedAt = t])

\* Mutant: the new card is put in front of the others
addCard_Front(prev, listId, id, title, t) ==
    LET lists == prev.val.lists
    IN  IF ~AllObjects(lists) THEN TypeError
        ELSE New([prev.val EXCEPT
                    !.lists = [i \in 1..Len(lists) |->
                                 IF lists[i].id = listId
                                 THEN [lists[i] EXCEPT
                                         !.cards = <<NewCard(id, title, t)>> \o @]
                                 ELSE lists[i]],
                    !.updatedAt = t])

addCard(prev, listId, id, title, t) ==
    LET lists == prev.val.lists
    IN  IF ~AllObjects(lists) THEN TypeError
        ELSE New([prev.val EXCEPT
                    !.lists = [i \in 1..Len(lists) |->
                                 IF lists[i].id = listId
                                 THEN [lists[i] EXCEPT
                                         !.cards = Append(@, NewCard(id, title, t))]
                                 ELSE lists[i]],
                    !.updatedAt = t])

\* Mutant: the retitled card is built anew, without its comments
updateCardTitle_Fresh(prev, listId, cardId, title, t) ==
    LET lists == prev.val.lists
    IN  IF \/ ~AllObjects(lists)
           \/ \E i \in 1..Len(lists) :
                 lists[i].id = listId /\ ~AllObjects(lists[i].cards)
        THEN TypeError
        ELSE New([prev.val EXCEPT
                    !.lists = [i \in 1..Len(lists) |->
                       IF lists[i].id = listId
                       THEN [lists[i] EXCEPT
                               !.cards = [k \in 1..Len(@) |->
                                            IF @[k].id = cardId
                                            THEN NewCard(@[k].id, title, @[k].createdAt)
                                            ELSE @[k]]]
                       ELSE lists[i]],
                    !.updatedAt = t])

updateCardTitle(prev, listId, cardId, title, t) ==
    LET lists == prev.val.lists
    IN  IF \/ ~AllObjects(lists)
           \/ \E i \in 1..Len(lists) :
                 lists[i].id = listId /\ ~AllObjects(lists[i].cards)
        THEN TypeError
        ELSE New([prev.val EXCEPT
                    !.lists = [i \in 1..Len(lists) |->
                       IF lists[i].id = listId
                       THEN [lists[i] EXCEPT
                               !.cards = [k \in 1..Len(@) |->
                                            IF @[k].id = cardId
                                            THEN [@[k] EXCEPT !.title = title]
                                            ELSE @[k]]]
                       ELSE lists[i]],
                    !.updatedAt = t])

deleteCard(prev, listId, cardId, t) ==
    LET lists == prev.val.lists
    IN  IF \/ ~AllObjects(lists)
           \/ \E i \in 1..Len(lists) :
                 lists[i].id = listId /\ ~AllObjects(lists[i].cards)
        THEN TypeError
        ELSE New([prev.val EXCEPT
                    !.lists = [i \in 1..Len(lists) |->
                       IF lists[i].id = listId
                       THEN [lists[i] EXCEPT !.cards = FilterOut(@, cardId)]
                       ELSE lists[i]],
                    !.updatedAt = t])

reorderCards(prev, listId, startIndex, endIndex, t) ==
    LET lists == prev.val.lists
    IN  IF ~AllObjects(lists) THEN TypeError
        ELSE New([prev.val EXCEPT
                    !.lists = [i \in 1..Len(lists) |->
                       IF lists[i].id = listId
                       THEN [lists[i] EXCEPT
                               !.cards = reorderArray(@, startIndex, endIndex)]
                       ELSE lists[i]],
                    !.updatedAt = t])

\* Mutant: a missing list is answered like every other operation does, with
\* a copy of the board that carries a new updatedAt
moveCardNotFound_Copy(prev, t) == New([prev.val EXCEPT !.updatedAt = t])

\* if (!sourceList || !destList) return prev;
moveCardNotFound(prev, t) == prev

\* Mutant: the source list is mapped to itself, only the destination gets
\* its new cards
moveCard_Copy(prev, sourceListId, destListId, sourceIndex, destIndex, t) ==
    LET lists == prev.val.lists
        sourceList == Find(lists, sourceListId)
        destList == Find(lists, destListId)
    IN  IF FindThrows(lists, sourceListId) \/ FindThrows(lists, destListId)
        THEN TypeError
        ELSE IF ~IsObject(sourceList) \/ ~IsObject(destList)
        THEN moveCardNotFound(prev, t)
        ELSE IF ~AllObjects(lists)
        THEN TypeError
        ELSE
        LET movedCard == SpliceRemoved(sourceList.cards, sourceIndex)
            removedFrom == SpliceRemoveRest(sourceList.cards, sourceIndex)
            sourceCards == IF sourceListId = destListId
                           THEN SpliceInsert(removedFrom, destIndex, movedCard)
                           ELSE sourceList.cards
            destCards == SpliceInsert(destList.cards, destIndex, movedCard)
        IN  New([prev.val EXCEPT
                   !.lists = [i \in 1..Len(lists) |->
                      IF lists[i].id = sourceListId
                      THEN [lists[i] EXCEPT !.cards = sourceCards]
                      ELSE IF lists[i].id = destListId /\ sourceListId # destListId
                      THEN [lists[i] EXCEPT !.cards = destCards]
                      ELSE lists[i]],
                   !.updatedAt = t])

\* Mutant: destCards is always a copy of its own, so that a card moved within
\* one list is inserted into an array that is thrown away
moveCard_NoAlias(prev, sourceListId, destListId, sourceIndex, destIndex, t) ==
    LET lists == prev.val.lists
        sourceList == Find(lists, sourceListId)
        destList == Find(lists, destListId)
    IN  IF FindThrows(lists, sourceListId) \/ FindThrows(lists, destListId)
        THEN TypeError
        ELSE IF ~IsObject(sourceList) \/ ~IsObject(destList)
        THEN moveCardNotFound(prev, t)
        ELSE IF ~AllObjects(lists)
        THEN TypeError
        ELSE
        LET movedCard == SpliceRemoved(sourceList.cards, sourceIndex)
            removedFrom == SpliceRemoveRest(sourceList.cards, sourceIndex)
            sourceCards == removedFrom
            destCards == SpliceInsert(destList.cards, destIndex, movedCard)
        IN  New([prev.val EXCEPT
                   !.lists = [i \in 1..Len(lists) |->
                      IF lists[i].id = sourceListId
                      THEN [lists[i] EXCEPT !.cards = sourceCards]
                      ELSE IF lists[i].id = destListId /\ sourceListId # destListId
                      THEN [lists[i] EXCEPT !.cards = destCards]
                      ELSE lists[i]],
                   !.updatedAt = t])

moveCard(prev, sourceListId, destListId, sourceIndex, destIndex, t) ==
    LET lists == prev.val.lists
        sourceList == Find(lists, sourceListId)
        destList == Find(lists, destListId)
    IN  IF FindThrows(lists, sourceListId) \/ FindThrows(lists, destListId)
        THEN TypeError
        ELSE IF ~IsObject(sourceList) \/ ~IsObject(destList)
        THEN moveCardNotFound(prev, t)
        ELSE IF ~AllObjects(lists)
        THEN TypeError
        ELSE
        LET movedCard == SpliceRemoved(sourceList.cards, sourceIndex)
            removedFrom == SpliceRemoveRest(sourceList.cards, sourceIndex)
            sourceCards == IF sourceListId = destListId
                           THEN SpliceInsert(removedFrom, destIndex, movedCard)
                           ELSE removedFrom
            destCards == SpliceInsert(destList.cards, destIndex, movedCard)
        IN  New([prev.val EXCEPT
                   !.lists = [i \in 1..Len(lists) |->
                      IF lists[i].id = sourceListId
                      THEN [lists[i] EXCEPT !.cards = sourceCards]
                      ELSE IF lists[i].id = destListId /\ sourceListId # destListId
                      THEN [lists[i] EXCEPT !.cards = destCards]
                      ELSE lists[i]],
                   !.updatedAt = t])

\* Mutant: the new comment is put in front of the others
addComment_Prepend(prev, listId, cardId, id, text, t) ==
    LET lists == prev.val.lists
    IN  IF \/ ~AllObjects(lists)
           \/ \E i \in 1..Len(lists) :
                 lists[i].id = listId /\ ~AllObjects(lists[i].cards)
        THEN TypeError
        ELSE New([prev.val EXCEPT
                    !.lists = [i \in 1..Len(lists) |->
                       IF lists[i].id = listId
                       THEN [lists[i] EXCEPT
                               !.cards = [k \in 1..Len(@) |->
                                  IF @[k].id = cardId
                                  THEN [@[k] EXCEPT
                                          !.comments = <<NewComment(id, text, t)>> \o @]
                                  ELSE @[k]]]
                       ELSE lists[i]],
                    !.updatedAt = t])

addComment(prev, listId, cardId, id, text, t) ==
    LET lists == prev.val.lists
    IN  IF \/ ~AllObjects(lists)
           \/ \E i \in 1..Len(lists) :
                 lists[i].id = listId /\ ~AllObjects(lists[i].cards)
        THEN TypeError
        ELSE New([prev.val EXCEPT
                    !.lists = [i \in 1..Len(lists) |->
                       IF lists[i].id = listId
                       THEN [lists[i] EXCEPT
                               !.cards = [k \in 1..Len(@) |->
                                  IF @[k].id = cardId
                                  THEN [@[k] EXCEPT
                                          !.comments = Append(@, NewComment(id, text, t))]
                                  ELSE @[k]]]
                       ELSE lists[i]],
                    !.updatedAt = t])

\* resetBoard hands setBoard the DEFAULT_BOARD object itself
resetBoard(prev) == DefaultObject

----------------------------------------------------------------------------
(* Storage and serialization *)

\* STORAGE_KEYS.BOARD, and some other key of the same origin
BOARD_KEY == "trello-clone-board"
OTHER_KEY == "other-key"

\* what localStorage holds under a key: nothing (getItem gives null), a JSON
\* text, or a text that is not JSON
NoItem == [item |-> "null"]
EmptyItem == [item |-> "empty"]
Garbage == [item |-> "garbage"]

\* localStorage of this browser: working; disabled (every access throws a
\* SecurityError); or full (setItem throws a QuotaExceededError)
Faults == {"none", "disabled", "quota"}
getItemThrows == fault = "disabled"
setItemThrows == fault \in {"disabled", "quota"}
removeItemThrows == fault = "disabled"

\* JSON.stringify writes an undefined array element as null
JsonArray(a) == [i \in 1..Len(a) |-> IF a[i] = Undefined THEN Null ELSE a[i]]

ToJson(board) ==
    [board EXCEPT
       !.lists = [i \in 1..Len(@) |->
                    IF IsObject(@[i])
                    THEN [@[i] EXCEPT !.cards = JsonArray(@)]
                    ELSE JsonArray(<<@[i]>>)[1]]]

\* serializer = JSON.stringify
serializer(value) == [item |-> "json", json |-> ToJson(value)]

\* deserializer = JSON.parse
deserializer(item) == IF item.item = "json" THEN item.json ELSE SyntaxError

\* if (item): null and "" are falsy
Truthy(item) == item.item \notin {"null", "empty"}

\* Boards an earlier session left in storage.  The scenario board has
\* Todo = [C1, C2] and Done = []; the busy board is the default board after
\* the card of In Progress was moved to the end of Todo and commented on.
ScenarioBoard ==
    [DEFAULT_BOARD EXCEPT
       !.title = "Scenario",
       !.lists = << NewList(LiteralId("list", 1), "Todo", DEFAULT_BOARD.lists[1].cards),
                    NewList(LiteralId("list", 3), "Done", <<>>) >>]

BusyBoard ==
    [DEFAULT_BOARD EXCEPT
       !.lists[1].cards =
           Append(@, [DEFAULT_BOARD.lists[2].cards[1] EXCEPT
                        !.comments = <<NewComment(<<"comment", "uuid", 0>>, "hello", 0)>>]),
       !.lists[2].cards = <<>>]

SeedItems == {NoItem, EmptyItem, Garbage, serializer(ScenarioBoard), serializer(BusyBoard)}

----------------------------------------------------------------------------
(* useLocalStorage *)

\* React's setState: Object.is(prev, next) bails out, a thrown updater
\* takes the component down, anything else schedules a render.
SetStoredValue(t, next, why) ==
    IF IsError(next)
    THEN /\ crashed' = [crashed EXCEPT ![t] = TRUE]
         /\ UNCHANGED <<storedValue, pending>>
    ELSE IF next.ref # "new" /\ next.ref = storedValue[t].ref
    THEN UNCHANGED <<storedValue, pending, crashed>>
    ELSE /\ storedValue' = [storedValue EXCEPT
                              ![t] = [ref |-> IF next.ref = "new" THEN "state" ELSE next.ref,
                                      val |-> next.val]]
         /\ pending' = [pending EXCEPT ![t] = why]
         /\ UNCHANGED crashed

Mounted_LazyRead ==
    /\ storedValue = [t \in Tabs |->
                        IF storage.item = "json"
                        THEN [ref |-> "state", val |-> storage.json]
                        ELSE DefaultObject]
    /\ isHydrated = [t \in Tabs |-> FALSE]
    /\ isFirstRender = [t \in Tabs |-> TRUE]
    /\ listening = [t \in Tabs |-> FALSE]
    /\ pending = [t \in Tabs |-> "none"]
    /\ rendered = [t \in Tabs |-> DEFAULT_BOARD]
    /\ crashed = [t \in Tabs |-> FALSE]
    /\ inbox = [t \in Tabs |-> <<>>]
    /\ reads = [t \in Tabs |-> 0]
    /\ now = 1
    /\ uuid = 0
    /\ issued = <<>>
    /\ calls = <<>>
    /\ ops = 0
    /\ last = [op |-> "init", tab |-> 0]

\* The state after the first render of every tab: the initial value in
\* memory, nothing read yet.
Mounted ==
    /\ storedValue = [t \in Tabs |-> DefaultObject]
    /\ isHydrated = [t \in Tabs |-> FALSE]
    /\ isFirstRender = [t \in Tabs |-> TRUE]
    /\ listening = [t \in Tabs |-> FALSE]
    /\ pending = [t \in Tabs |-> "none"]
    /\ rendered = [t \in Tabs |-> DEFAULT_BOARD]
    /\ crashed = [t \in Tabs |-> FALSE]
    /\ inbox = [t \in Tabs |-> <<>>]
    /\ reads = [t \in Tabs |-> 0]
    /\ now = 1
    /\ uuid = 0
    /\ issued = <<>>
    /\ calls = <<>>
    /\ ops = 0
    /\ last = [op |-> "init", tab |-> 0]

\* storage as an earlier session left it, in a browser whose localStorage works
Init ==
    /\ storage \in SeedItems
    /\ fault = "none"
    /\ Mounted

\* the same in any browser
InitAnyBrowser ==
    /\ storage \in SeedItems
    /\ fault \in Faults
    /\ Mounted

\* The browser queues a storage event for every other document of the origin
\* when setItem or removeItem changes the value stored under the key.
Notify(t, key, old, new) ==
    [u \in Tabs |->
        IF u # t /\ listening[u] /\ old # new
        THEN Append(inbox[u], [key |-> key, newValue |-> new])
        ELSE inbox[u]]

WriteEffect_Unguarded(t, hydrated, value) ==
    IF ~setItemThrows
    THEN /\ storage' = serializer(value)
         /\ inbox' = Notify(t, BOARD_KEY, storage, serializer(value))
    ELSE UNCHANGED <<storage, inbox>>

\* The write effect of a render whose closure holds isHydrated = hydrated and
\* storedValue = value; a setItem that throws is caught and logged.
WriteEffect(t, hydrated, value) ==
    IF hydrated /\ ~setItemThrows
    THEN /\ storage' = serializer(value)
         /\ inbox' = Notify(t, BOARD_KEY, storage, serializer(value))
    ELSE UNCHANGED <<storage, inbox>>

\* What the try block of the hydration effect comes to: the parsed value,
\* nothing (getItem gave a falsy item), or the error getItem or the
\* deserializer throws.
Nothing == [nothing |-> TRUE]
SecurityError == [error |-> "SecurityError"]
HydrationRead ==
    IF getItemThrows THEN SecurityError
    ELSE IF Truthy(storage) THEN deserializer(storage)
    ELSE Nothing

HydrationEffect_NoCatch(t) ==
    /\ isFirstRender[t]
    /\ isFirstRender' = [isFirstRender EXCEPT ![t] = FALSE]
    /\ reads' = [reads EXCEPT ![t] = @ + 1]
    /\ storedValue' = [storedValue EXCEPT
                         ![t] = IF IsError(HydrationRead) \/ HydrationRead = Nothing
                                THEN @
                                ELSE [ref |-> "state", val |-> HydrationRead]]
    /\ isHydrated' = [isHydrated EXCEPT ![t] = ~IsError(HydrationRead)]
    /\ crashed' = [crashed EXCEPT ![t] = IsError(HydrationRead)]
    /\ WriteEffect(t, isHydrated[t], storedValue[t].val)
    /\ listening' = [listening EXCEPT ![t] = TRUE]
    /\ pending' = [pending EXCEPT ![t] = "hydrate"]
    /\ last' = [op |-> "hydrate", tab |-> t, pre |-> storedValue[t], item |-> storage,
                read |-> HydrationRead]
    /\ UNCHANGED <<rendered, fault, now, uuid, issued, calls, ops>>

\* The effects of the first render, in the order the hook declares them: the
\* hydration effect (the read, caught if it throws, then setIsHydrated), the
\* write effect of that render (its closure holds isHydrated = false and the
\* initial value) and the listener registration.
HydrationEffect(t) ==
    /\ isFirstRender[t]
    /\ isFirstRender' = [isFirstRender EXCEPT ![t] = FALSE]
    /\ reads' = [reads EXCEPT ![t] = @ + 1]
    /\ storedValue' = [storedValue EXCEPT
                         ![t] = IF IsError(HydrationRead) \/ HydrationRead = Nothing
                                THEN @
                                ELSE [ref |-> "state", val |-> HydrationRead]]
    /\ isHydrated' = [isHydrated EXCEPT ![t] = TRUE]
    /\ WriteEffect(t, isHydrated[t], storedValue[t].val)
    /\ listening' = [listening EXCEPT ![t] = TRUE]
    /\ pending' = [pending EXCEPT ![t] = "hydrate"]
    /\ last' = [op |-> "hydrate", tab |-> t, pre |-> storedValue[t], item |-> storage,
                read |-> HydrationRead]
    /\ UNCHANGED <<rendered, crashed, fault, now, uuid, issued, calls, ops>>

RerunActivationEffect_Reread(t) ==
    /\ ~isFirstRender[t] /\ ~crashed[t]
    /\ reads' = [reads EXCEPT ![t] = @ + 1]
    /\ last' = [op |-> "activate", tab |-> t, pre |-> storedValue[t]]
    /\ UNCHANGED <<storedValue, isHydrated, isFirstRender, listening, pending,
                   rendered, crashed, inbox, storage, fault, now, uuid, issued, calls, ops>>

\* The hydration effect and the listener effect run again (their
\* dependencies [key, deserializer] changed, or the development build
\* re-ran the effects of the mount): isFirstRender.current is false, no read
\* is made, the listener is removed and registered again.
RerunActivationEffect(t) ==
    /\ ~isFirstRender[t] /\ ~crashed[t]
    /\ last' = [op |-> "activate", tab |-> t, pre |-> storedValue[t]]
    /\ UNCHANGED <<storedValue, isHydrated, isFirstRender, listening, pending,
                   rendered, crashed, inbox, storage, fault, reads, now, uuid, issued, calls, ops>>

Commit_Fatal(t) ==
    /\ pending[t] # "none" /\ ~crashed[t]
    /\ pending' = [pending EXCEPT ![t] = "none"]
    /\ rendered' = [rendered EXCEPT ![t] = storedValue[t].val]
    /\ WriteEffect(t, isHydrated[t], storedValue[t].val)
    /\ crashed' = [crashed EXCEPT ![t] = isHydrated[t] /\ setItemThrows]
    /\ last' = [op |-> "commit", tab |-> t, pre |-> storedValue[t],
                wrote |-> isHydrated[t], cause |-> pending[t]]
    /\ UNCHANGED <<storedValue, isHydrated, isFirstRender, listening,
                   fault, reads, now, uuid, issued, calls, ops>>

Commit_Stale(t) ==
    /\ pending[t] # "none" /\ ~crashed[t]
    /\ pending' = [pending EXCEPT ![t] = "none"]
    /\ rendered' = [rendered EXCEPT ![t] = storedValue[t].val]
    /\ WriteEffect(t, isHydrated[t], rendered[t])
    /\ last' = [op |-> "commit", tab |-> t, pre |-> storedValue[t],
                wrote |-> isHydrated[t], cause |-> pending[t]]
    /\ UNCHANGED <<storedValue, isHydrated, isFirstRender, listening, crashed,
                   fault, reads, now, uuid, issued, calls, ops>>

\* The render a state update scheduled, followed by its effects: the write
\* effect runs because storedValue or isHydrated changed.  A render whose
\* updater threw commits nothing.  wrote: the effect called setItem.
Commit(t) ==
    /\ pending[t] # "none" /\ ~crashed[t]
    /\ pending' = [pending EXCEPT ![t] = "none"]
    /\ rendered' = [rendered EXCEPT ![t] = storedValue[t].val]
    /\ WriteEffect(t, isHydrated[t], storedValue[t].val)
    /\ last' = [op |-> "commit", tab |-> t, pre |-> storedValue[t],
                wrote |-> isHydrated[t], cause |-> pending[t]]
    /\ UNCHANGED <<storedValue, isHydrated, isFirstRender, listening, crashed,
                   fault, reads, now, uuid, issued, calls, ops>>

\* removeValue: setStoredValue(initialValue), then removeItem(key); an error
\* is caught and logged
RemoveValue(t) ==
    /\ ~isFirstRender[t] /\ pending[t] = "none" /\ ~crashed[t]
    /\ SetStoredValue(t, DefaultObject, "removeValue")
    /\ IF removeItemThrows
       THEN UNCHANGED <<storage, inbox>>
       ELSE /\ storage' = NoItem
            /\ inbox' = Notify(t, BOARD_KEY, storage, NoItem)
    /\ ops' = ops + 1
    /\ last' = [op |-> "removeValue", tab |-> t, pre |-> storedValue[t], at |-> now]
    /\ UNCHANGED <<isHydrated, isFirstRender, listening, rendered, fault, reads,
                   now, uuid, issued, calls>>

\* What a document of the origin that is not one of the tabs may do to
\* localStorage: remove the key, store a text that is not JSON under it, or
\* store a board under another key.  Every listening tab is notified.
OtherWrites ==
    {[key |-> BOARD_KEY, newValue |-> NoItem],
     [key |-> BOARD_KEY, newValue |-> Garbage],
     [key |-> OTHER_KEY, newValue |-> serializer(ScenarioBoard)]}

OtherDocument ==
    /\ \E write \in OtherWrites :
          /\ storage' = IF write.key = BOARD_KEY THEN write.newValue ELSE storage
          /\ inbox' = Notify(0, write.key,
                             IF write.key = BOARD_KEY THEN storage ELSE NoItem,
                             write.newValue)
          /\ last' = [op |-> "otherDocument", tab |-> 0, write |-> write]
    /\ ops' = ops + 1
    /\ UNCHANGED <<storedValue, isHydrated, isFirstRender, listening, pending, rendered,
                   crashed, fault, reads, now, uuid, issued, calls>>

\* Mutant: the key of the event is not looked at
StorageEvent_AnyKey(t) ==
    /\ listening[t] /\ pending[t] = "none" /\ ~crashed[t]
    /\ inbox[t] # <<>>
    /\ inbox' = [inbox EXCEPT ![t] = Tail(@)]
    /\ LET event == Head(inbox[t])
           value == IF event.newValue # NoItem
                    THEN deserializer(event.newValue)
                    ELSE SyntaxError
       IN  IF IsError(value)
           THEN UNCHANGED <<storedValue, pending, crashed>>
           ELSE SetStoredValue(t, New(value), "storage")
    /\ last' = [op |-> "storage", tab |-> t, pre |-> storedValue[t],
                event |-> Head(inbox[t]),
                follows |-> IF last.tab # t THEN "other"
                            ELSE IF last.op = "commit" THEN last.cause ELSE last.op]
    /\ UNCHANGED <<isHydrated, isFirstRender, listening, rendered, storage,
                   fault, reads, now, uuid, issued, calls, ops>>

\* Mutant: a store that has left its default value keeps what it has
StorageEvent_KeepLocal(t) ==
    /\ listening[t] /\ pending[t] = "none" /\ ~crashed[t]
    /\ inbox[t] # <<>>
    /\ inbox' = [inbox EXCEPT ![t] = Tail(@)]
    /\ LET event == Head(inbox[t])
           value == IF event.key = BOARD_KEY /\ event.newValue # NoItem
                    THEN deserializer(event.newValue)
                    ELSE SyntaxError
       IN  IF IsError(value) \/ storedValue[t].ref # "default"
           THEN UNCHANGED <<storedValue, pending, crashed>>
           ELSE SetStoredValue(t, New(value), "storage")
    /\ last' = [op |-> "storage", tab |-> t, pre |-> storedValue[t],
                event |-> Head(inbox[t]),
                follows |-> IF last.tab # t THEN "other"
                            ELSE IF last.op = "commit" THEN last.cause ELSE last.op]
    /\ UNCHANGED <<isHydrated, isFirstRender, listening, rendered, storage,
                   fault, reads, now, uuid, issued, calls, ops>>

\* handleStorageChange
StorageEvent(t) ==
    /\ listening[t] /\ pending[t] = "none" /\ ~crashed[t]
    /\ inbox[t] # <<>>
    /\ inbox' = [inbox EXCEPT ![t] = Tail(@)]
    /\ LET event == Head(inbox[t])
           value == IF event.key = BOARD_KEY /\ event.newValue # NoItem
                    THEN deserializer(event.newValue)
                    ELSE SyntaxError
       IN  IF IsError(value)
           THEN UNCHANGED <<storedValue, pending, crashed>>
           ELSE SetStoredValue(t, New(value), "storage")
    /\ last' = [op |-> "storage", tab |-> t, pre |-> storedValue[t],
                event |-> Head(inbox[t]),
                follows |-> IF last.tab # t THEN "other"
                            ELSE IF last.op = "commit" THEN last.cause ELSE last.op]
    /\ UNCHANGED <<isHydrated, isFirstRender, listening, rendered, storage,
                   fault, reads, now, uuid, issued, calls, ops>>

----------------------------------------------------------------------------
(* Arguments the callers are modelled to pass *)

\* ids of the lists of a board, and one id no list has
ListIdArgs(board) ==
    {board.lists[i].id : i \in {j \in 1..Len(board.lists) : IsObject(board.lists[j])}}
        \cup {MissingId}

\* ids of the cards of a board, and one id no card has
CardIdArgs(board) ==
    UNION {{l.cards[k].id : k \in {j \in 1..Len(l.cards) : IsObject(l.cards[j])}} :
              l \in {board.lists[i] : i \in {j \in 1..Len(board.lists) :
                                                 IsObject(board.lists[j])}}}
        \cup {MissingId}

\* the cards of the list with this id, empty when there is none
CardsOf(board, listId) ==
    IF IsObject(Find(board.lists, listId)) THEN Find(board.lists, listId).cards ELSE <<>>

\* indices around an array of length n: negative, valid, n and past n
IndexArgs(n) == (-1)..(n + 1)

----------------------------------------------------------------------------
(* useBoard: the operations *)

\* setBoard(updater) called from an event handler of a mounted, rendered tab
Call(t, result, drawn, record) ==
    /\ ~isFirstRender[t] /\ pending[t] = "none" /\ ~crashed[t]
    /\ SetStoredValue(t, result, record.op)
    /\ now' = now + 1
    /\ uuid' = uuid + drawn
    /\ issued' = IF drawn = 1 THEN Append(issued, record.id) ELSE issued
    /\ calls' = Append(calls, [f \in DOMAIN record \ {"id"} |-> record[f]])
    /\ ops' = ops + 1
    /\ last' = record @@ [tab |-> t, pre |-> storedValue[t], at |-> now]
    /\ UNCHANGED <<isHydrated, isFirstRender, listening, rendered, inbox, storage,
                   fault, reads>>

UpdateBoardTitle(t) ==
    \E title \in Titles :
        Call(t, updateBoardTitle(storedValue[t], title, now), 0,
             [op |-> "updateBoardTitle", title |-> title])

ResetBoard(t) ==
    Call(t, resetBoard(storedValue[t]), 0, [op |-> "resetBoard"])

AddList(t) ==
    \E title \in Titles :
        Call(t, addList(storedValue[t], generateId("list", uuid + 1), title, now), 1,
             [op |-> "addList", title |-> title, id |-> generateId("list", uuid + 1)])

UpdateListTitle(t) ==
    \E listId \in ListIdArgs(storedValue[t].val), title \in Titles :
        Call(t, updateListTitle(storedValue[t], listId, title, now), 0,
             [op |-> "updateListTitle", listId |-> listId, title |-> title])

DeleteList(t) ==
    \E listId \in ListIdArgs(storedValue[t].val) :
        Call(t, deleteList(storedValue[t], listId, now), 0,
             [op |-> "deleteList", listId |-> listId])

DeleteAllCards(t) ==
    \E listId \in ListIdArgs(storedValue[t].val) :
        Call(t, deleteAllCards(storedValue[t], listId, now), 0,
             [op |-> "deleteAllCards", listId |-> listId])

ReorderLists(t) ==
    \E startIndex, endIndex \in IndexArgs(Len(storedValue[t].val.lists)) :
        Call(t, reorderLists(storedValue[t], startIndex, endIndex, now), 0,
             [op |-> "reorderLists", startIndex |-> startIndex, endIndex |-> endIndex])

AddCard(t) ==
    \E listId \in ListIdArgs(storedValue[t].val), title \in Titles :
        Call(t, addCard(storedValue[t], listId, generateId("card", uuid + 1), title, now), 1,
             [op |-> "addCard", listId |-> listId, title |-> title,
              id |-> generateId("card", uuid + 1)])

UpdateCardTitle(t) ==
    \E listId \in ListIdArgs(storedValue[t].val),
       cardId \in CardIdArgs(storedValue[t].val), title \in Titles :
        Call(t, updateCardTitle(storedValue[t], listId, cardId, title, now), 0,
             [op |-> "updateCardTitle", listId |-> listId, cardId |-> cardId,
              title |-> title])

DeleteCard(t) ==
    \E listId \in ListIdArgs(storedValue[t].val),
       cardId \in CardIdArgs(storedValue[t].val) :
        Call(t, deleteCard(storedValue[t], listId, cardId, now), 0,
             [op |-> "deleteCard", listId |-> listId, cardId |-> cardId])

ReorderCards(t) ==
    \E listId \in ListIdArgs(storedValue[t].val) :
        \E startIndex, endIndex \in IndexArgs(Len(CardsOf(storedValue[t].val, listId))) :
            Call(t, reorderCards(storedValue[t], listId, startIndex, endIndex, now), 0,
                 [op |-> "reorderCards", listId |-> listId,
                  startIndex |-> startIndex, endIndex |-> endIndex])

MoveCard(t) ==
    \E sourceListId, destListId \in ListIdArgs(storedValue[t].val) :
        \E sourceIndex \in IndexArgs(Len(CardsOf(storedValue[t].val, sourceListId))),
           destIndex \in IndexArgs(Len(CardsOf(storedValue[t].val, destListId))) :
            Call(t, moveCard(storedValue[t], sourceListId, destListId,
                             sourceIndex, destIndex, now), 0,
                 [op |-> "moveCard", sourceListId |-> sourceListId,
                  destListId |-> destListId, sourceIndex |-> sourceIndex,
                  destIndex |-> destIndex])

AddComment(t) ==
    \E listId \in ListIdArgs(storedValue[t].val),
       cardId \in CardIdArgs(storedValue[t].val), text \in Texts :
        Call(t, addComment(storedValue[t], listId, cardId,
                           generateId("comment", uuid + 1), text, now), 1,
             [op |-> "addComment", listId |-> listId, cardId |-> cardId, text |-> text,
              id |-> generateId("comment", uuid + 1)])

----------------------------------------------------------------------------
(* Board: the drag handlers *)

\* Board and List render every list and every card by its id
Renderable(board) ==
    /\ AllObjects(board.lists)
    /\ \A i \in 1..Len(board.lists) : AllObjects(board.lists[i].cards)

\* what a drag event can carry, given the render that registered the
\* draggables: the dragged item (Card, List: useSortable data) ...
Actives(board) ==
    {[type |-> "list", id |-> board.lists[i].id, listId |-> board.lists[i].id] :
        i \in 1..Len(board.lists)}
    \cup UNION {{[type |-> "card", id |-> board.lists[i].cards[k].id,
                  listId |-> board.lists[i].id] : k \in 1..Len(board.lists[i].cards)} :
                   i \in 1..Len(board.lists)}

\* ... and the droppable under it, if any
Overs(board) == Actives(board) \cup {[type |-> "none", id |-> MissingId, listId |-> MissingId]}

NoCall == [call |-> "none"]

\* handleDragOver, up to the call it makes; board is the value its closure holds
handleDragOver(board, active, over) ==
    IF over.type = "none" THEN NoCall
    ELSE IF active.type # "card" THEN NoCall
    ELSE
    LET activeListId == active.listId
        overListId == over.listId
        sourceList == Find(board.lists, activeListId)
        destList == Find(board.lists, overListId)
    IN  IF activeListId = overListId THEN NoCall
        ELSE IF ~IsObject(sourceList) \/ ~IsObject(destList) THEN NoCall
        ELSE
        LET activeIndex == FindIndex(sourceList.cards, active.id)
            overIndex == IF over.type = "card"
                         THEN FindIndex(destList.cards, over.id) ELSE -1
            destIndex == IF overIndex # -1 THEN overIndex ELSE Len(destList.cards)
        IN  IF activeIndex = -1 THEN NoCall
            ELSE [call |-> "moveCard",
                  sourceListId |-> activeListId, destListId |-> overListId,
                  sourceIndex |-> activeIndex, destIndex |-> destIndex]

\* the state update a handler's call makes
Perform(t, call) ==
    IF call.call = "moveCard"
    THEN SetStoredValue(t, moveCard(storedValue[t], call.sourceListId, call.destListId,
                                    call.sourceIndex, call.destIndex, now), "dragOver")
    ELSE UNCHANGED <<storedValue, pending, crashed>>

\* a drag-over event of a gesture, delivered to the handler of the last render
HandleDragOver(t) ==
    /\ ~isFirstRender[t] /\ pending[t] = "none" /\ ~crashed[t]
    /\ Renderable(rendered[t])
    /\ \E active \in Actives(rendered[t]), over \in Overs(rendered[t]) :
          LET call == handleDragOver(rendered[t], active, over)
          IN  /\ Perform(t, call)
              /\ last' = [op |-> "dragOver", tab |-> t, pre |-> storedValue[t],
                          at |-> now, active |-> active, over |-> over,
                          call |-> call, n |-> 1]
    /\ now' = now + 1
    /\ ops' = ops + 1
    /\ UNCHANGED <<isHydrated, isFirstRender, listening, rendered, inbox, storage,
                   fault, reads, uuid, issued, calls>>

\* the same event delivered again before the tab has rendered: the handler
\* is the same closure over the same board value
RepeatDragOver(t) ==
    /\ pending[t] # "none" /\ ~crashed[t]
    /\ last.op = "dragOver" /\ last.tab = t
    /\ last.n < MaxRepeats
    /\ Perform(t, handleDragOver(rendered[t], last.active, last.over))
    /\ last' = [last EXCEPT !.n = @ + 1]
    /\ now' = now + 1
    /\ UNCHANGED <<isHydrated, isFirstRender, listening, rendered, inbox, storage,
                   fault, reads, uuid, issued, calls, ops>>

\* Mutant: the two positions are not compared before reorderCards is called
handleDragEnd_NoCompare(board, active, over) ==
    IF over.type = "none" THEN NoCall
    ELSE IF active.type = "list" /\ over.type = "list"
    THEN IF active.id = over.id THEN NoCall
         ELSE LET oldIndex == FindIndex(board.lists, active.id)
                  newIndex == FindIndex(board.lists, over.id)
              IN  IF oldIndex # -1 /\ newIndex # -1
                  THEN [call |-> "reorderLists",
                        startIndex |-> oldIndex, endIndex |-> newIndex]
                  ELSE NoCall
    ELSE IF active.type # "card" THEN NoCall
    ELSE
    LET activeListId == active.listId
        overListId == over.listId
        list == Find(board.lists, activeListId)
    IN  IF activeListId # overListId THEN NoCall
        ELSE IF ~IsObject(list) THEN NoCall
        ELSE
        LET oldIndex == FindIndex(list.cards, active.id)
            newIndex == FindIndex(list.cards, over.id)
        IN  IF oldIndex # -1 /\ newIndex # -1
            THEN [call |-> "reorderCards", listId |-> activeListId,
                  startIndex |-> oldIndex, endIndex |-> newIndex]
            ELSE NoCall

\* handleDragEnd, up to the call it makes; board is the value its closure holds
handleDragEnd(board, active, over) ==
    IF over.type = "none" THEN NoCall
    ELSE IF active.type = "list" /\ over.type = "list"
    THEN IF active.id = over.id THEN NoCall
         ELSE LET oldIndex == FindIndex(board.lists, active.id)
                  newIndex == FindIndex(board.lists, over.id)
              IN  IF oldIndex # -1 /\ newIndex # -1
                  THEN [call |-> "reorderLists",
                        startIndex |-> oldIndex, endIndex |-> newIndex]
                  ELSE NoCall
    ELSE IF active.type # "card" THEN NoCall
    ELSE
    LET activeListId == active.listId
        overListId == over.listId
        list == Find(board.lists, activeListId)
    IN  IF activeListId # overListId THEN NoCall
        ELSE IF ~IsObject(list) THEN NoCall
        ELSE
        LET oldIndex == FindIndex(list.cards, active.id)
            newIndex == FindIndex(list.cards, over.id)
        IN  IF oldIndex # -1 /\ newIndex # -1 /\ oldIndex # newIndex
            THEN [call |-> "reorderCards", listId |-> activeListId,
                  startIndex |-> oldIndex, endIndex |-> newIndex]
            ELSE NoCall

\* the state update the call of handleDragEnd makes
PerformEnd(t, call) ==
    IF call.call = "reorderLists"
    THEN SetStoredValue(t, reorderLists(storedValue[t], call.startIndex,
                                        call.endIndex, now), "dragEnd")
    ELSE IF call.call = "reorderCards"
    THEN SetStoredValue(t, reorderCards(storedValue[t], call.listId, call.startIndex,
                                        call.endIndex, now), "dragEnd")
    ELSE UNCHANGED <<storedValue, pending, crashed>>

\* the drag-end event of a gesture, delivered to the handler of the last render
HandleDragEnd(t) ==
    /\ ~isFirstRender[t] /\ pending[t] = "none" /\ ~crashed[t]
    /\ Renderable(rendered[t])
    /\ \E active \in Actives(rendered[t]), over \in Overs(rendered[t]) :
          LET call == handleDragEnd(rendered[t], active, over)
          IN  /\ PerformEnd(t, call)
              /\ last' = [op |-> "dragEnd", tab |-> t, pre |-> storedValue[t],
                          at |-> now, active |-> active, over |-> over, call |-> call]
    /\ now' = now + 1
    /\ ops' = ops + 1
    /\ UNCHANGED <<isHydrated, isFirstRender, listening, rendered, inbox, storage,
                   fault, reads, uuid, issued, calls>>

----------------------------------------------------------------------------
(* Specifications *)

\* One tab: every operation of the store, with arbitrary arguments.
Next ==
    \E t \in {1} :
        \/ HydrationEffect(t)
        \/ Commit(t)
        \/ ops < MaxOps /\ UpdateBoardTitle(t)
        \/ ops < MaxOps /\ ResetBoard(t)
        \/ ops < MaxOps /\ AddList(t)
        \/ ops < MaxOps /\ UpdateListTitle(t)
        \/ ops < MaxOps /\ DeleteList(t)
        \/ ops < MaxOps /\ DeleteAllCards(t)
        \/ ops < MaxOps /\ ReorderLists(t)
        \/ ops < MaxOps /\ AddCard(t)
        \/ ops < MaxOps /\ UpdateCardTitle(t)
        \/ ops < MaxOps /\ DeleteCard(t)
        \/ ops < MaxOps /\ ReorderCards(t)
        \/ ops < MaxOps /\ MoveCard(t)
        \/ ops < MaxOps /\ AddComment(t)
        \/ ops < MaxOps /\ HandleDragOver(t)
        \/ RepeatDragOver(t)

Spec == Init /\ [][Next]_vars

\* Two tabs on the same storage key, each retitling the board.
NextTabs ==
    \E t \in Tabs :
        \/ HydrationEffect(t)
        \/ Commit(t)
        \/ StorageEvent(t)
        \/ ops < MaxOps /\ UpdateBoardTitle(t)

SpecTabs == Init /\ [][NextTabs]_vars

\* Two tabs on the same storage key and the rest of the origin: a tab removes
\* the key, another document writes to localStorage.
NextOrigin ==
    \/ \E t \in Tabs :
          \/ HydrationEffect(t)
          \/ Commit(t)
          \/ StorageEvent(t)
          \/ ops < MaxOps /\ RemoveValue(t)
    \/ ops < MaxOps /\ OtherDocument

SpecOrigin == Init /\ [][NextOrigin]_vars

\* Two tabs that have both loaded (hydrated, and rendered since) before the
\* user retitles the board in either.  The event loop of a tab runs every
\* render React has scheduled and dispatches every storage event queued for
\* it, so these steps are weakly fair; the user's operations are not.
Loaded(t) == isHydrated[t] /\ pending[t] # "hydrate"

NextFair ==
    \E t \in Tabs :
        \/ HydrationEffect(t)
        \/ Commit(t)
        \/ StorageEvent(t)
        \/ /\ ops < MaxCalls
           /\ \A u \in Tabs : Loaded(u)
           /\ UpdateBoardTitle(t)

SpecFair ==
    /\ Init
    /\ [][NextFair]_vars
    /\ \A t \in Tabs : /\ WF_vars(HydrationEffect(t))
                        /\ WF_vars(Commit(t))
                        /\ WF_vars(StorageEvent(t))

\* One tab and the gestures of the user: cards dragged over lists and cards,
\* items dropped.
NextDrag ==
    \E t \in {1} :
        \/ HydrationEffect(t)
        \/ Commit(t)
        \/ ops < MaxCalls /\ HandleDragOver(t)
        \/ RepeatDragOver(t)
        \/ ops < MaxCalls /\ HandleDragEnd(t)

SpecDrag == Init /\ [][NextDrag]_vars

\* One store and the whole interface of the hook, in any browser: a value is
\* set, the state is reset, the key is removed, the effects of the mount run
\* again.
NextHook ==
    \E t \in {1} :
        \/ HydrationEffect(t)
        \/ RerunActivationEffect(t)
        \/ Commit(t)
        \/ ops < MaxOps /\ UpdateBoardTitle(t)
        \/ ops < MaxOps /\ ResetBoard(t)
        \/ ops < MaxOps /\ RemoveValue(t)

SpecHook == InitAnyBrowser /\ [][NextHook]_vars

\* the first and the last list of a board, the first and the last card of a list
FirstListId(board) ==
    IF board.lists # <<>> /\ IsObject(board.lists[1]) THEN board.lists[1].id ELSE MissingId
LastListId(board) ==
    IF board.lists # <<>> /\ IsObject(board.lists[Len(board.lists)])
    THEN board.lists[Len(board.lists)].id ELSE MissingId
FirstCardId(cards) ==
    IF cards # <<>> /\ IsObject(cards[1]) THEN cards[1].id ELSE MissingId
LastCardId(cards) ==
    IF cards # <<>> /\ IsObject(cards[Len(cards)]) THEN cards[Len(cards)].id ELSE MissingId

\* A longer session of one store that starts from the default board (the key
\* is absent), in any browser.  The user works at the ends of the board:
\* adds a list, deletes the last list, adds a card to the first list and
\* deletes its last card, comments on its first card, moves its first card
\* to the head of the last list, retitles and resets the board.
NextSeq ==
    \E t \in {1} :
        LET board == storedValue[t].val
            first == FirstListId(board)
            cards == CardsOf(board, first)
        IN  \/ HydrationEffect(t)
            \/ Commit(t)
            \/ ops < MaxSeqOps /\ UpdateBoardTitle(t)
            \/ ops < MaxSeqOps /\ ResetBoard(t)
            \/ ops < MaxSeqOps /\ AddList(t) /\ last'.title = "X"
            \/ ops < MaxSeqOps /\ DeleteList(t) /\ last'.listId = LastListId(board)
            \/ ops < MaxSeqOps /\ AddCard(t) /\ last'.title = "X" /\ last'.listId = first
            \/ ops < MaxSeqOps /\ DeleteCard(t) /\ last'.listId = first
                                /\ last'.cardId = LastCardId(cards)
            \/ ops < MaxSeqOps /\ AddComment(t) /\ last'.listId = first
                                /\ last'.cardId = FirstCardId(cards)
            \/ ops < MaxSeqOps /\ MoveCard(t) /\ last'.sourceListId = first
                                /\ last'.destListId = LastListId(board)
                                /\ last'.sourceIndex = 0 /\ last'.destIndex = 0

InitSeq ==
    /\ storage = NoItem
    /\ fault \in Faults
    /\ Mounted

SpecSeq == InitSeq /\ [][NextSeq]_vars

\* A user who retitles and adds at the head of the board, and may do the same
\* thing again: the board, its first list and the first card of that list
\* get a title, the board a list, the first list a card, its first card a
\* comment.
NextTwice ==
    \E t \in {1} :
        LET board == storedValue[t].val
            first == FirstListId(board)
            cards == CardsOf(board, first)
        IN  \/ HydrationEffect(t)
            \/ Commit(t)
            \/ ops < MaxCalls /\ UpdateBoardTitle(t)
            \/ ops < MaxCalls /\ UpdateListTitle(t) /\ last'.listId = first
            \/ ops < MaxCalls /\ UpdateCardTitle(t) /\ last'.listId = first
                                /\ last'.cardId = FirstCardId(cards)
            \/ ops < MaxCalls /\ AddList(t) /\ last'.title = "X"
            \/ ops < MaxCalls /\ AddCard(t) /\ last'.title = "X" /\ last'.listId = first
            \/ ops < MaxCalls /\ AddComment(t) /\ last'.listId = first
                                /\ last'.cardId = FirstCardId(cards)

SpecTwice == Init /\ [][NextTwice]_vars

----------------------------------------------------------------------------
(* Vocabulary of the properties *)

\* the tab of the last operation, the board it was applied to and the board now
Pre == last.pre.val
Post == storedValue[last.tab].val

\* a Board in the sense of the type: lists of List, cards of Card
IsBoard(board) ==
    /\ \A i \in 1..Len(board.lists) : IsObject(board.lists[i])
    /\ \A i \in 1..Len(board.lists) :
          \A k \in 1..Len(board.lists[i].cards) : IsObject(board.lists[i].cards[k])

HasList(board, listId) == \E i \in 1..Len(board.lists) : board.lists[i].id = listId

ListOf(board, listId) ==
    board.lists[CHOOSE i \in 1..Len(board.lists) : board.lists[i].id = listId]

\* positions are 0-based, as in the calls
ValidPosition(a, index) == index \in 0..(Len(a) - 1)
ValidInsertion(a, index) == index \in 0..Len(a)

Without(a, index) ==
    [k \in 1..(Len(a) - 1) |-> IF k <= index THEN a[k] ELSE a[k + 1]]

InsertedAt(a, index, x) ==
    [k \in 1..(Len(a) + 1) |->
        IF k <= index THEN a[k] ELSE IF k = index + 1 THEN x ELSE a[k - 1]]

Occurrences(a, x) == Cardinality({k \in 1..Len(a) : a[k] = x})

\* number of entries of all cards arrays of a board
TotalCards(board) ==
    LET Sum[i \in 0..Len(board.lists)] ==
            IF i = 0 THEN 0 ELSE Sum[i - 1] + Len(board.lists[i].cards)
    IN  Sum[Len(board.lists)]

\* the board apart from its modification time
Tree(board) == [board EXCEPT !.updatedAt = 0]

----------------------------------------------------------------------------
(* C1: a hydrated store that receives a storage event for its own key with  *)
(* a non-null value makes no write to storage because of it: the render the *)
(* receipt schedules runs no setItem.                                       *)

C1_ReceiptCausesNoWrite ==
    (last.op = "commit" /\ last.cause = "storage") => ~last.wrote

----------------------------------------------------------------------------
\* the case of C2: a moveCard between two distinct lists of a board, with valid indices
C2_Applies ==
    /\ last.op = "moveCard"
    /\ IsBoard(Pre)
    /\ last.sourceListId # last.destListId
    /\ HasList(Pre, last.sourceListId) /\ HasList(Pre, last.destListId)
    /\ ValidPosition(ListOf(Pre, last.sourceListId).cards, last.sourceIndex)
    /\ ValidInsertion(ListOf(Pre, last.destListId).cards, last.destIndex)

(* C2: moveCard between two distinct existing lists, with sourceIndex a     *)
(* position of the source and destIndex an insertion point of the           *)
(* destination, removes the card at sourceIndex from the source, inserts    *)
(* that card exactly once at destIndex of the destination, keeps the order  *)
(* of all other cards and leaves every other list as it was.                *)
C2_MoveCardBetweenLists ==
    C2_Applies =>
        LET card == ListOf(Pre, last.sourceListId).cards[last.sourceIndex + 1]
        IN  /\ Len(Post.lists) = Len(Pre.lists)
            /\ \A i \in 1..Len(Pre.lists) :
                  Post.lists[i] =
                     IF Pre.lists[i].id = last.sourceListId
                     THEN [Pre.lists[i] EXCEPT !.cards = Without(@, last.sourceIndex)]
                     ELSE IF Pre.lists[i].id = last.destListId
                     THEN [Pre.lists[i] EXCEPT
                             !.cards = InsertedAt(@, last.destIndex, card)]
                     ELSE Pre.lists[i]
            /\ Occurrences(ListOf(Post, last.destListId).cards, card) = 1
            /\ Occurrences(ListOf(Post, last.sourceListId).cards, card) = 0

\* the scenario: Todo = [C1, C2], Done = [], moveCard(todo, done, 0, 0)
C2_Witness ==
    /\ C2_Applies
    /\ Pre = ScenarioBoard
    /\ last.sourceListId = LiteralId("list", 1) /\ last.destListId = LiteralId("list", 3)
    /\ last.sourceIndex = 0 /\ last.destIndex = 0
    /\ Post.lists[1].cards = <<ScenarioBoard.lists[1].cards[2]>>
    /\ Post.lists[2].cards = <<ScenarioBoard.lists[1].cards[1]>>

----------------------------------------------------------------------------
(* C3: the number of entries of the cards arrays, summed over all lists, is *)
(* the same before and after every moveCard and every reorderCards,         *)
(* whatever list ids and indices are passed.                                *)

C3_TotalCardsInvariant ==
    (last.op \in {"moveCard", "reorderCards"} /\ IsBoard(Pre) /\ ~crashed[last.tab])
        => TotalCards(Post) = TotalCards(Pre)

----------------------------------------------------------------------------
(* C4: an operation that names a list id the board does not have leaves the *)
(* board equal to its input in every field, updatedAt included.             *)

C4_Operations ==
    {"addCard", "updateListTitle", "deleteList", "deleteAllCards", "reorderCards",
     "updateCardTitle", "deleteCard", "addComment"}

C4_MissingListNoOp ==
    (last.op \in C4_Operations /\ IsBoard(Pre) /\ ~HasList(Pre, last.listId))
        => Post = Pre

----------------------------------------------------------------------------
(* C5: reorderLists and reorderCards called with an index that is not a     *)
(* position of the sequence leave the sequence as it was.                   *)

C5_InvalidReorderNoOp ==
    /\ (/\ last.op = "reorderLists"
        /\ IsBoard(Pre)
        /\ \/ ~ValidPosition(Pre.lists, last.startIndex)
           \/ ~ValidPosition(Pre.lists, last.endIndex))
           => Post.lists = Pre.lists
    /\ (/\ last.op = "reorderCards"
        /\ IsBoard(Pre)
        /\ HasList(Pre, last.listId)
        /\ \/ ~ValidPosition(ListOf(Pre, last.listId).cards, last.startIndex)
           \/ ~ValidPosition(ListOf(Pre, last.listId).cards, last.endIndex))
           => Post.lists = Pre.lists

----------------------------------------------------------------------------
(* C6: moveCard between two existing lists with sourceIndex not a position  *)
(* of the source or destIndex not an insertion point of the destination     *)
(* leaves the lists as they were, and every entry of a list is a card.      *)

C6_InvalidMoveNoOp ==
    (/\ last.op = "moveCard"
     /\ IsBoard(Pre)
     /\ HasList(Pre, last.sourceListId) /\ HasList(Pre, last.destListId)
     /\ \/ ~ValidPosition(ListOf(Pre, last.sourceListId).cards, last.sourceIndex)
        \/ ~ValidInsertion(ListOf(Pre, last.destListId).cards, last.destIndex))
        => (Post.lists = Pre.lists /\ IsBoard(Post))

----------------------------------------------------------------------------
\* the case of C7: a moveCard that names a list the board does not have
C7_Applies ==
    /\ last.op = "moveCard"
    /\ IsBoard(Pre)
    /\ ~HasList(Pre, last.sourceListId) \/ ~HasList(Pre, last.destListId)

(* C7: moveCard naming a source or destination list the board does not have *)
(* hands React the state object itself: the board is the same in every      *)
(* field, no render is scheduled and so the write effect does not run.      *)
C7_MissingListSameBoard ==
    C7_Applies =>
        /\ storedValue[last.tab] = last.pre
        /\ pending[last.tab] = "none"
        /\ ~crashed[last.tab]
        /\ storage = serializer(Pre)

\* the source exists and the destination does not
C7_Witness ==
    /\ C7_Applies
    /\ HasList(Pre, last.sourceListId)
    /\ ValidPosition(ListOf(Pre, last.sourceListId).cards, last.sourceIndex)

----------------------------------------------------------------------------
\* the case of C8: a reorderCards on a list of the board, with two valid positions
C8_Applies ==
    /\ last.op = "reorderCards"
    /\ IsBoard(Pre)
    /\ HasList(Pre, last.listId)
    /\ ValidPosition(ListOf(Pre, last.listId).cards, last.startIndex)
    /\ ValidPosition(ListOf(Pre, last.listId).cards, last.endIndex)

(* C8: reorderCards on an existing list with two valid positions puts the   *)
(* card of fromIndex at toIndex, keeps the other cards in their relative    *)
(* order (so the multiset of cards is the same) and leaves the other lists  *)
(* as they were.                                                            *)
C8_ReorderCardsRelocatesOne ==
    C8_Applies =>
        LET old == ListOf(Pre, last.listId).cards
            new == ListOf(Post, last.listId).cards
        IN  /\ Len(new) = Len(old)
            /\ new[last.endIndex + 1] = old[last.startIndex + 1]
            /\ Without(new, last.endIndex) = Without(old, last.startIndex)
            /\ \A x \in {old[k] : k \in 1..Len(old)} :
                  Occurrences(new, x) = Occurrences(old, x)
            /\ Len(Post.lists) = Len(Pre.lists)
            /\ \A i \in 1..Len(Pre.lists) :
                  Pre.lists[i].id # last.listId => Post.lists[i] = Pre.lists[i]

\* the first of three cards is moved to the end
C8_Witness ==
    /\ C8_Applies
    /\ Len(ListOf(Pre, last.listId).cards) = 3
    /\ last.startIndex = 0 /\ last.endIndex = 2
    /\ ListOf(Post, last.listId).cards[3] = ListOf(Pre, last.listId).cards[1]

----------------------------------------------------------------------------
\* the case of C9: a reorderCards on a list of the board, from a valid position to itself
C9_Applies ==
    /\ last.op = "reorderCards"
    /\ IsBoard(Pre)
    /\ HasList(Pre, last.listId)
    /\ ValidPosition(ListOf(Pre, last.listId).cards, last.startIndex)
    /\ last.endIndex = last.startIndex

(* C9: reorderCards(listId, i, i) on an existing list with i a valid        *)
(* position leaves the board as it was, apart from updatedAt.               *)
C9_ReorderSamePositionNoOp ==
    C9_Applies => Tree(Post) = Tree(Pre)

\* the middle card of three, and the timestamp has moved
C9_Witness ==
    /\ C9_Applies
    /\ Len(ListOf(Pre, last.listId).cards) = 3
    /\ last.startIndex = 1
    /\ Post.updatedAt # Pre.updatedAt

----------------------------------------------------------------------------
(* C10: when one provisional move is delivered two or more times in a row   *)
(* (same lists and indices, computed from one board value), the board still *)
(* holds every card exactly once, holds no entry that is not a card, and    *)
(* only the dragged card has changed list.                                  *)

CardsIn(board, listId) ==
    {ListOf(board, listId).cards[k] : k \in 1..Len(ListOf(board, listId).cards)}

C10_RepeatedMoveTolerated ==
    (/\ last.op = "dragOver"
     /\ last.call.call = "moveCard"
     /\ last.n >= 2
     /\ IsBoard(Pre)
     /\ ~crashed[last.tab])
        => /\ IsBoard(Post)
           /\ TotalCards(Post) = TotalCards(Pre)
           /\ \A i \in 1..Len(Pre.lists) :
                 \A c \in CardsIn(Pre, Pre.lists[i].id) :
                    IF c.id = last.active.id
                    THEN c \in CardsIn(Post, last.call.destListId)
                    ELSE c \in CardsIn(Post, Pre.lists[i].id)

----------------------------------------------------------------------------
\* the operations that hand a value or an updater to setStoredValue
IsOperation(op) == op \notin {"init", "hydrate", "commit", "activate", "storage"}

\* nothing of the tab is waiting to run: no render, no storage event
Quiescent(t) == pending[t] = "none" /\ inbox[t] = <<>>

----------------------------------------------------------------------------
\* the case of C12: the hydration effect of a store has just run
C12_Applies == last.op = "hydrate"

(* C12: the hydration read ends with the store hydrated and standing.  When *)
(* getItem returns a non-empty item that is JSON the in-memory value is the *)
(* parsed item; when the key is absent or empty, getItem throws or the item *)
(* is not JSON, the in-memory value is still the initial value object.      *)
C12_HydrationEndsSynced ==
    C12_Applies =>
        /\ isHydrated[last.tab]
        /\ ~crashed[last.tab]
        /\ IF fault # "disabled" /\ last.item.item = "json"
           THEN Post = last.item.json
           ELSE storedValue[last.tab] = DefaultObject

\* getItem throws while the key holds a board of an earlier session
C12_Witness ==
    /\ C12_Applies
    /\ fault = "disabled"
    /\ last.item = serializer(ScenarioBoard)
    /\ last.read = SecurityError
    /\ Post = DEFAULT_BOARD

----------------------------------------------------------------------------
(* C13: a store changes the item under the key, or calls setItem, only in a *)
(* step that comes after its hydration read: the effects of the first       *)
(* render write nothing, so the item an earlier session left is still there *)
(* when the store reads it.                                                 *)
C13_NoWriteBeforeRead ==
    [][(storage' # storage \/ (last'.op = "commit" /\ last'.wrote))
          => reads[last'.tab] > 0]_vars

\* a store has read the board of an earlier session and then written, while
\* the other store has neither read nor written
C13_Witness ==
    /\ last.op = "commit" /\ last.cause = "hydrate" /\ last.wrote
    /\ reads[last.tab] = 1
    /\ storage = serializer(ScenarioBoard)
    /\ \E u \in Tabs : isFirstRender[u] /\ reads[u] = 0

----------------------------------------------------------------------------
(* C14: a store calls getItem at most once in its life, however often the   *)
(* hydration effect runs again after the first time.                        *)
C14_ReadAtMostOnce == \A t \in Tabs : reads[t] <= 1

\* the effect has run again after the read
C14_Witness ==
    /\ last.op = "activate"
    /\ reads[last.tab] = 1
    /\ storedValue[last.tab] = last.pre

----------------------------------------------------------------------------
(* C15: as long as a store has not made its hydration read, its in-memory   *)
(* value is the initial value object and that is what it has rendered,      *)
(* whatever the key holds and whatever another store writes meanwhile.      *)
C15_DefaultBeforeRead ==
    \A t \in Tabs :
        reads[t] = 0 => (storedValue[t] = DefaultObject /\ rendered[t] = DEFAULT_BOARD)

\* a store that has not read while the key holds the retitled board another
\* store has written
C15_Witness ==
    /\ last.op = "commit" /\ last.cause = "updateBoardTitle" /\ last.wrote
    /\ storage.item = "json" /\ storage.json.title = "X"
    /\ \E t \in Tabs : reads[t] = 0 /\ storedValue[t] = DefaultObject

----------------------------------------------------------------------------
\* a reset has run to its end: it scheduled no render, or the render it
\* scheduled has run its effects
ResetOps == {"resetBoard", "removeValue"}
C17_Applies ==
    \/ last.op \in ResetOps /\ pending[last.tab] = "none" /\ ~crashed[last.tab]
    \/ last.op = "commit" /\ last.cause \in ResetOps

(* C17: after resetBoard or removeValue, called in any state of a hydrated  *)
(* store, the in-memory value is the default board and, writes succeeding,  *)
(* the item under the key is the serialization of the default board.        *)
C17_ResetRestoresDefault ==
    C17_Applies =>
        /\ Post = DEFAULT_BOARD
        /\ ~setItemThrows => storage = serializer(DEFAULT_BOARD)

\* the same for resetBoard alone
C17_ResetBoardAlone ==
    (C17_Applies /\ (last.op = "resetBoard" \/ (last.op = "commit" /\ last.cause = "resetBoard")))
        => /\ Post = DEFAULT_BOARD
           /\ ~setItemThrows => storage = serializer(DEFAULT_BOARD)

----------------------------------------------------------------------------
\* the case of C16: the write effect of a render has called setItem and
\* setItem has thrown
C16_Applies ==
    /\ last.op = "commit"
    /\ last.wrote /\ setItemThrows

(* C16: a setItem that throws in the write effect takes nothing down and    *)
(* rolls nothing back: the in-memory board is still the value the render    *)
(* was scheduled for (the result of the board operation, or the hydrated    *)
(* value) and is what the store has rendered, and the operations that       *)
(* follow work on it (a retitle changes the title of that board, an added   *)
(* list is appended to its lists).                                          *)
C16_FailedWriteNotFatal ==
    /\ C16_Applies =>
          /\ ~crashed[last.tab]
          /\ storedValue[last.tab] = last.pre
          /\ rendered[last.tab] = Post
          /\ pending[last.tab] = "none"
    /\ (setItemThrows /\ last.op = "updateBoardTitle") =>
          /\ Post = [Pre EXCEPT !.title = last.title, !.updatedAt = last.at]
          /\ ~crashed[last.tab]
    /\ (setItemThrows /\ last.op = "addList") =>
          /\ Post.lists = Append(Pre.lists, [id |-> last.id, title |-> last.title,
                                             cards |-> <<>>])
          /\ ~crashed[last.tab]

\* the storage is full and nothing was ever stored; a list was added, its
\* write failed, and the board with that list has then been retitled
C16_Witness ==
    /\ C16_Applies
    /\ fault = "quota" /\ storage = NoItem
    /\ ops = 2 /\ last.cause = "updateBoardTitle"
    /\ Post.title = "Y"
    /\ Len(Post.lists) = Len(DEFAULT_BOARD.lists) + 1

----------------------------------------------------------------------------
\* the case of C18: an operation of useBoard has just been applied
C18_Applies == IsOperation(last.op) /\ last.op \notin {"removeValue", "dragOver"}

(* C18: the clock advancing with every operation, no board operation makes  *)
(* updatedAt smaller, and a board operation that changes the board sets     *)
(* updatedAt to the time of the operation.                                  *)
C18_UpdatedAtAdvances ==
    C18_Applies =>
        /\ Post.updatedAt >= Pre.updatedAt
        /\ Post # Pre => Post.updatedAt = last.at

\* the same for every operation but resetBoard
C18_AllButReset ==
    (C18_Applies /\ last.op # "resetBoard") =>
        /\ Post.updatedAt >= Pre.updatedAt
        /\ Post # Pre => Post.updatedAt = last.at

----------------------------------------------------------------------------
\* the places <<list, position>> of a board that hold a card
CardPlaces(board) ==
    {p \in UNION {{<<i, k>> : k \in 1..Len(board.lists[i].cards)} :
                     i \in {j \in 1..Len(board.lists) : IsObject(board.lists[j])}} :
        IsObject(board.lists[p[1]].cards[p[2]])}

CardAt(board, p) == board.lists[p[1]].cards[p[2]]

\* the number of places of a list that hold the card with this id
PlacesIn(list, id) ==
    Cardinality({k \in 1..Len(list.cards) :
                    IsObject(list.cards[k]) /\ list.cards[k].id = id})

\* a moveCard between two distinct lists of a board whose sourceIndex is the
\* position of a card, with any destIndex
C19_Moves ==
    /\ last.op = "moveCard"
    /\ IsBoard(Pre)
    /\ last.sourceListId # last.destListId
    /\ HasList(Pre, last.sourceListId) /\ HasList(Pre, last.destListId)
    /\ ValidPosition(ListOf(Pre, last.sourceListId).cards, last.sourceIndex)

(* C19: in the board of a store every card id is at one place only: in one  *)
(* list and once in it.  A moveCard between two lists takes the card out of *)
(* the source list and puts it once into the destination list.              *)
C19_CardInOneList ==
    /\ \A t \in Tabs :
          \A p, q \in CardPlaces(storedValue[t].val) :
              CardAt(storedValue[t].val, p).id = CardAt(storedValue[t].val, q).id => p = q
    /\ C19_Moves =>
          LET card == ListOf(Pre, last.sourceListId).cards[last.sourceIndex + 1]
          IN  /\ PlacesIn(ListOf(Post, last.sourceListId), card.id) = 0
              /\ PlacesIn(ListOf(Post, last.destListId), card.id) = 1

\* the last card of Todo was moved past the end of Done, after the busy
\* board was loaded
C19_Witness ==
    /\ C19_Moves
    /\ Pre = BusyBoard
    /\ last.sourceListId = LiteralId("list", 1) /\ last.destListId = LiteralId("list", 3)
    /\ last.sourceIndex = 2 /\ last.destIndex = 1
    /\ PlacesIn(ListOf(Post, last.destListId), LiteralId("card", 3)) = 1
    /\ Len(ListOf(Post, last.sourceListId).cards) = 2

----------------------------------------------------------------------------
\* the entities of a board, each named by its path: <<i>> a list, <<i, k>> a
\* card, <<i, k, c>> a comment
ListPaths(board) == {<<i>> : i \in {j \in 1..Len(board.lists) : IsObject(board.lists[j])}}
CommentPaths(board) ==
    UNION {{<<p[1], p[2], c>> : c \in 1..Len(CardAt(board, p).comments)} :
              p \in CardPlaces(board)}
EntityPaths(board) == ListPaths(board) \cup CardPlaces(board) \cup CommentPaths(board)

IdAt(board, path) ==
    IF Len(path) = 1 THEN board.lists[path[1]].id
    ELSE IF Len(path) = 2 THEN CardAt(board, path).id
    ELSE CardAt(board, <<path[1], path[2]>>).comments[path[3]].id

AddOps == {"addList", "addCard", "addComment"}

(* C20: the ids of the lists, cards and comments of the board of a store    *)
(* are pairwise distinct; generateId never returns an id it has returned    *)
(* before, whether or not the entity that got it is still in the board; and *)
(* the list addList appends carries the id generated for it.                *)
C20_IdsUnique ==
    /\ \A t \in Tabs :
          \A p, q \in EntityPaths(storedValue[t].val) :
              IdAt(storedValue[t].val, p) = IdAt(storedValue[t].val, q) => p = q
    /\ \A i, j \in 1..Len(issued) : issued[i] = issued[j] => i = j
    /\ (last.op \in AddOps) => issued[Len(issued)] = last.id
    /\ (last.op = "addList" /\ ~crashed[last.tab]) =>
          Post.lists[Len(Post.lists)].id = last.id

\* a list was added and deleted, and the list added after it has another id
C20_Witness ==
    /\ last.op = "addList"
    /\ Len(issued) = 2
    /\ issued[1][1] = "list"
    /\ \A p \in EntityPaths(Post) : IdAt(Post, p) # issued[1]
    /\ \E p \in ListPaths(Post) : IdAt(Post, p) = issued[2]

----------------------------------------------------------------------------
\* the case of C21: deleteList names a list of the board
C21_Applies ==
    /\ last.op = "deleteList"
    /\ AllObjects(Pre.lists)
    /\ HasList(Pre, last.listId)

\* the ids of the cards of a list and of their comments
DescendantIds(list) ==
    UNION {{list.cards[k].id} \cup
           {list.cards[k].comments[c].id : c \in 1..Len(list.cards[k].comments)} :
              k \in {j \in 1..Len(list.cards) : IsObject(list.cards[j])}}

(* C21: deleteList of an existing list leaves the other lists, in their     *)
(* order and as they were, and nothing else of the board changes but        *)
(* updatedAt; no card of the deleted list and no comment of such a card is  *)
(* in a list that remains.                                                  *)
C21_DeleteListRemovesSubtree ==
    C21_Applies =>
        LET i == CHOOSE j \in 1..Len(Pre.lists) : Pre.lists[j].id = last.listId
        IN  /\ ~crashed[last.tab]
            /\ Post = [Pre EXCEPT !.lists = Without(Pre.lists, i - 1),
                                  !.updatedAt = last.at]
            /\ \A p \in EntityPaths(Post) :
                  IdAt(Post, p) \notin ({last.listId} \cup DescendantIds(Pre.lists[i]))

\* Todo of the busy board, with three cards and a comment, is deleted
C21_Witness ==
    /\ C21_Applies
    /\ Pre = BusyBoard
    /\ last.listId = LiteralId("list", 1)
    /\ Len(Post.lists) = 2
    /\ Post.lists[1].id = LiteralId("list", 2)
    /\ Cardinality(DescendantIds(Pre.lists[1])) = 4

----------------------------------------------------------------------------
\* the case of C22: addComment names a list of the board and a card that
\* holds one place of that list
C22_Applies ==
    /\ last.op = "addComment"
    /\ IsBoard(Pre)
    /\ Cardinality({i \in 1..Len(Pre.lists) : Pre.lists[i].id = last.listId}) = 1
    /\ PlacesIn(ListOf(Pre, last.listId), last.cardId) = 1

(* C22: addComment on a card of the named list appends one comment with the *)
(* given text and an id no list, card or comment of the board had to the    *)
(* end of that card's comments; the earlier comments, the other cards and   *)
(* the other lists are unchanged.                                           *)
C22_AddCommentAppends ==
    C22_Applies =>
        LET i == CHOOSE j \in 1..Len(Pre.lists) : Pre.lists[j].id = last.listId
            k == CHOOSE j \in 1..Len(Pre.lists[i].cards) :
                    Pre.lists[i].cards[j].id = last.cardId
            before == Pre.lists[i].cards[k].comments
        IN  /\ ~crashed[last.tab]
            /\ Post = [Pre EXCEPT
                         !.lists[i].cards[k].comments =
                             Append(before, [id |-> last.id, text |-> last.text,
                                             createdAt |-> last.at]),
                         !.updatedAt = last.at]
            /\ Len(Post.lists[i].cards[k].comments) = Len(before) + 1
            /\ \A p \in EntityPaths(Pre) : IdAt(Pre, p) # last.id

\* the commented card of the busy board gets a second comment, after the first
C22_Witness ==
    /\ C22_Applies
    /\ Pre = BusyBoard
    /\ \E p \in CardPlaces(Pre) :
          /\ CardAt(Pre, p).id = last.cardId
          /\ Len(CardAt(Pre, p).comments) = 1
          /\ Len(CardAt(Post, p).comments) = 2
          /\ CardAt(Post, p).comments[1] = CardAt(Pre, p).comments[1]
          /\ CardAt(Post, p).comments[2].text = "hello"

----------------------------------------------------------------------------
\* the case of C23: addCard names a list of the board
C23_Applies ==
    /\ last.op = "addCard"
    /\ AllObjects(Pre.lists)
    /\ Cardinality({i \in 1..Len(Pre.lists) : Pre.lists[i].id = last.listId}) = 1

(* C23: addCard on a list of the board appends one card with the given      *)
(* title and no comments as the last card of that list; the earlier cards   *)
(* keep their order and every other list is unchanged.                      *)
C23_AddCardAppends ==
    C23_Applies =>
        LET i == CHOOSE j \in 1..Len(Pre.lists) : Pre.lists[j].id = last.listId
            before == Pre.lists[i].cards
            after == Post.lists[i].cards
        IN  /\ ~crashed[last.tab]
            /\ Len(after) = Len(before) + 1
            /\ after[Len(after)].title = last.title
            /\ after[Len(after)].comments = <<>>
            /\ after[Len(after)].id = last.id
            /\ SubSeq(after, 1, Len(before)) = before
            /\ \A j \in 1..Len(Pre.lists) : j # i => Post.lists[j] = Pre.lists[j]
            /\ Len(Post.lists) = Len(Pre.lists)
            /\ TotalCards(Post) = TotalCards(Pre) + 1

\* Todo of the default board, with two cards, gets a third one titled X
C23_Witness ==
    /\ C23_Applies
    /\ Pre = DEFAULT_BOARD
    /\ last.listId = LiteralId("list", 1)
    /\ last.title = "X"
    /\ Len(Post.lists[1].cards) = 3
    /\ Post.lists[1].cards[3].title = "X"
    /\ Post.lists[1].cards[1] = Pre.lists[1].cards[1]

----------------------------------------------------------------------------
\* the board has a list with this id
ExistingList(board, listId) ==
    \E i \in 1..Len(board.lists) : IsObject(board.lists[i]) /\ board.lists[i].id = listId

\* the case of C24: a moveCard whose source and destination are one list of
\* the board, or a reorderCards of a list of the board
C24_Applies ==
    \/ /\ last.op = "moveCard"
       /\ last.sourceListId = last.destListId
       /\ ExistingList(Pre, last.sourceListId)
    \/ /\ last.op = "reorderCards"
       /\ ExistingList(Pre, last.listId)

\* what the other of the two operations answers to the arguments of the call
C24_Other ==
    IF last.op = "moveCard"
    THEN reorderCards(last.pre, last.sourceListId, last.sourceIndex, last.destIndex, last.at)
    ELSE moveCard(last.pre, last.listId, last.listId, last.startIndex, last.endIndex, last.at)

(* C24: for every board, every list L of it and all indices, the lists      *)
(* after moveCard(L, L, sourceIndex, destIndex) are the lists that          *)
(* reorderCards(L, sourceIndex, destIndex) gives for the same board, and    *)
(* one of them throws exactly when the other does.                          *)
C24_MoveWithinListIsReorder ==
    C24_Applies =>
        IF IsError(C24_Other)
        THEN crashed[last.tab]
        ELSE /\ ~crashed[last.tab]
             /\ Post.lists = C24_Other.val.lists

\* moveCard(Todo, Todo, 0, 1) on the default board swaps the two cards of Todo
C24_Witness ==
    /\ last.op = "moveCard"
    /\ C24_Applies
    /\ Pre = DEFAULT_BOARD
    /\ last.sourceListId = LiteralId("list", 1)
    /\ last.sourceIndex = 0 /\ last.destIndex = 1
    /\ Post.lists[1].cards = <<Pre.lists[1].cards[2], Pre.lists[1].cards[1]>>
    /\ Post.lists # Pre.lists

----------------------------------------------------------------------------
\* the case of C25: a store has handled a notification for its key whose
\* value deserializes
C25_Applies ==
    /\ last.op = "storage"
    /\ last.event.key = BOARD_KEY
    /\ last.event.newValue # NoItem
    /\ ~IsError(deserializer(last.event.newValue))

(* C25: after a store has handled a notification for its key, its state is  *)
(* the deserialized value of that notification, whatever its state was; so  *)
(* after a run of notifications with no local operation in between the      *)
(* state is the value of the last one.                                      *)
C25_LastNotificationWins ==
    C25_Applies =>
        /\ Post = deserializer(last.event.newValue)
        /\ ~crashed[last.tab]

\* the second of two notifications in a row, with no operation of this store
\* between them, replaces the value the first one brought
C25_Witness ==
    /\ C25_Applies
    /\ last.follows = "storage"
    /\ Pre # Post
    /\ Post = deserializer(last.event.newValue)

----------------------------------------------------------------------------
UpdateOps == {"updateBoardTitle", "updateListTitle", "updateCardTitle"}

\* the last two operations called are one operation with the same arguments,
\* and the second of them has just been applied
C26_Twice ==
    /\ last.op \in UpdateOps \cup AddOps
    /\ Len(calls) >= 2
    /\ calls[Len(calls)] = calls[Len(calls) - 1]
    /\ calls[Len(calls)].op = last.op

\* the entity an add operation is called for exists
C26_TargetExists ==
    /\ last.op \in {"addCard", "addComment"} => ExistingList(Pre, last.listId)
    /\ last.op = "addComment" => PlacesIn(ListOf(Pre, last.listId), last.cardId) = 1

(* C26: an update operation (updateBoardTitle, updateListTitle,             *)
(* updateCardTitle) called a second time with the same arguments leaves the *)
(* tree as the first call left it, apart from updatedAt; an add operation   *)
(* (addList, addCard, addComment) called a second time with the same        *)
(* arguments adds a second entity, with an id different from the first.     *)
C26_UpdateIdempotentAddNot ==
    C26_Twice =>
        /\ ~crashed[last.tab]
        /\ last.op \in UpdateOps => Tree(Post) = Tree(Pre)
        /\ (last.op \in AddOps /\ C26_TargetExists) =>
              LET n == Len(issued)
              IN  /\ issued[n] # issued[n - 1]
                  /\ \E p, q \in EntityPaths(Post) :
                        /\ p # q /\ Len(p) = Len(q)
                        /\ IdAt(Post, p) = issued[n - 1]
                        /\ IdAt(Post, q) = issued[n]
                  /\ \E p \in EntityPaths(Pre) : IdAt(Pre, p) = issued[n - 1]
                  /\ \A p \in EntityPaths(Pre) : IdAt(Pre, p) # issued[n]
                  /\ Cardinality(EntityPaths(Post)) = Cardinality(EntityPaths(Pre)) + 1

\* addList("X") twice on the default board: five lists, the last two titled X
\* with different ids
C26_Witness ==
    /\ C26_Twice
    /\ last.op = "addList"
    /\ Len(Post.lists) = 5
    /\ Post.lists[4].title = "X" /\ Post.lists[5].title = "X"
    /\ Post.lists[4].id # Post.lists[5].id
    /\ Len(Pre.lists) = 4

----------------------------------------------------------------------------
\* a is a prefix of b
IsPrefix(a, b) == Len(a) <= Len(b) /\ SubSeq(b, 1, Len(a)) = a

\* every card that is in the board before and after keeps its comments, in
\* their order, as the first of its comments after
CommentsKept(before, after) ==
    \A p \in CardPlaces(before), q \in CardPlaces(after) :
        CardAt(before, p).id = CardAt(after, q).id =>
            IsPrefix(CardAt(before, p).comments, CardAt(after, q).comments)

\* the operations of useBoard, the drag handlers' calls included
C27_BoardOperation == IsOperation(last.op) /\ last.op # "removeValue"

(* C27 as stated: after any single operation of useBoard, every card that   *)
(* is in the board before and after it has its comments before as a prefix  *)
(* of its comments after.                                                   *)
C27_CommentsAppendOnly ==
    C27_BoardOperation => CommentsKept(Pre, Post)

(* C27 amended: after any single operation of useBoard other than           *)
(* resetBoard (moveCard, reorderCards and the drag handlers' moves          *)
(* included), every card that is in the board before and after it has its   *)
(* comments before as a prefix of its comments after, with ids, texts and   *)
(* order unchanged.                                                         *)
C27_AppendOnlyButReset ==
    (C27_BoardOperation /\ last.op # "resetBoard") => CommentsKept(Pre, Post)

\* the commented card of the busy board is retitled and keeps its comment
C27_Witness ==
    /\ last.op = "updateCardTitle"
    /\ Pre = BusyBoard
    /\ \E p \in CardPlaces(Pre) :
          /\ CardAt(Pre, p).id = last.cardId
          /\ CardAt(Pre, p).comments # <<>>
          /\ CardAt(Post, p).title = last.title
          /\ CardAt(Post, p).title # CardAt(Pre, p).title
          /\ CardAt(Post, p).comments = CardAt(Pre, p).comments

----------------------------------------------------------------------------
\* the case of C29: a store has handled a notification for another key, one
\* with a null new value, or one whose value is not JSON
C29_Applies ==
    /\ last.op = "storage"
    /\ \/ last.event.key # BOARD_KEY
       \/ last.event.newValue = NoItem
       \/ IsError(deserializer(last.event.newValue))

(* C29: a storage notification for a different key, with a null new value,  *)
(* or with a value that does not deserialize leaves the in-memory state of  *)
(* the store as it was, schedules no render and takes nothing down.         *)
C29_ForeignNotificationIgnored ==
    C29_Applies =>
        /\ storedValue[last.tab] = last.pre
        /\ pending[last.tab] = "none"
        /\ ~crashed[last.tab]

\* a store that holds the scenario board is told that the key was removed and
\* keeps the scenario board
C29_Witness ==
    /\ C29_Applies
    /\ last.event = [key |-> BOARD_KEY, newValue |-> NoItem]
    /\ Post = ScenarioBoard
    /\ storage = NoItem

----------------------------------------------------------------------------
\* no render and no notification is waiting in either tab, and both tabs
\* hold the value that is stored
C28_Settled ==
    \A t \in Tabs :
        /\ Loaded(t)
        /\ Quiescent(t)
        /\ serializer(storedValue[t].val) = storage

(* C28: two tabs on one key, both loaded; once the user's operations have   *)
(* stopped, under fair scheduling of renders and storage events a state is  *)
(* reached from which no notification is pending, no write is made and both *)
(* tabs hold the stored value, in every interleaving.                       *)
C28_ExchangeStops == <>[]C28_Settled

----------------------------------------------------------------------------
\* a drag handler has made a call; the board its closure held
C30_Applies == last.op \in {"dragOver", "dragEnd"} /\ last.call.call # "none"
C30_Snapshot == rendered[last.tab]

(* C30: every call of the drag handlers carries indices that are valid for  *)
(* the board the handler read.  handleDragEnd calls reorderLists and        *)
(* reorderCards only, with two different positions of the lists or of the   *)
(* cards of a list of the board; handleDragOver calls moveCard only, with   *)
(* two different lists of the board, sourceIndex the position of the        *)
(* dragged card in the source list and destIndex in 0..len of the           *)
(* destination's cards.                                                     *)
C30_HandlerCallsValid ==
    C30_Applies =>
        LET call == last.call
            board == C30_Snapshot
        IN  /\ last.op = "dragEnd" => call.call \in {"reorderLists", "reorderCards"}
            /\ last.op = "dragOver" => call.call = "moveCard"
            /\ call.call = "reorderLists" =>
                  /\ ValidPosition(board.lists, call.startIndex)
                  /\ ValidPosition(board.lists, call.endIndex)
                  /\ call.startIndex # call.endIndex
            /\ call.call = "reorderCards" =>
                  /\ ExistingList(board, call.listId)
                  /\ ValidPosition(ListOf(board, call.listId).cards, call.startIndex)
                  /\ ValidPosition(ListOf(board, call.listId).cards, call.endIndex)
                  /\ call.startIndex # call.endIndex
            /\ call.call = "moveCard" =>
                  /\ call.sourceListId # call.destListId
                  /\ ExistingList(board, call.sourceListId)
                  /\ ExistingList(board, call.destListId)
                  /\ ValidPosition(ListOf(board, call.sourceListId).cards, call.sourceIndex)
                  /\ ListOf(board, call.sourceListId).cards[call.sourceIndex + 1].id
                        = last.active.id
                  /\ ValidInsertion(ListOf(board, call.destListId).cards, call.destIndex)

\* a card moved to another list by a drag-over is dropped on its neighbour
\* there: reorderCards is called with the two positions
C30_Witness ==
    /\ C30_Applies
    /\ last.op = "dragEnd"
    /\ last.call.call = "reorderCards"
    /\ Pre.updatedAt > 0
    /\ last.call.startIndex = 0 /\ last.call.endIndex = 1
    /\ Post.lists # Pre.lists
    /\ ~crashed[last.tab]

====
